---- MODULE Spec2Model ----
(***************************************************************************)
(* Model of src/data/packetid/gen_packetid.go: the packet-ID generator.    *)
(*                                                                         *)
(* Text is modelled so that equality of model values is equality of the    *)
(* Go strings they stand for:                                              *)
(*  - a mapping key ("0x00", "3", "abc") is the sequence of its characters *)
(*  - a raw packet name ("keep_alive") is the sequence of its words, the   *)
(*    words being what the delimiter "_" separates                         *)
(*  - a canonical name ("KeepAlive") is the sequence of its capitalised    *)
(*    parts; every part is one capital followed by lower-case letters, so  *)
(*    a Go string has exactly one such splitting and s + "Clientbound" is  *)
(*    Append(s, "Clientbound").                                            *)
(* A Go map's iteration order is unspecified: every loop over a map takes  *)
(* the order of visit as an input ranging over all permutations.           *)
(***************************************************************************)
EXTENDS Integers, Sequences, FiniteSets, TLC

VARIABLES
    m,        \* SpecEUN: the duplexMappings EnsureUniqueNames is called on
    hist,     \* SpecEUN: m at construction and after every call
    given,    \* SpecUnpack, Spec: per state, what protocol.json holds for it
    ret,      \* SpecUnpack: what unpackMapping(doc, gameState) returned
    gameState,\* SpecUnpack: the state asked for
    pc,       \* Spec: position of main / downloadInfo
    out,      \* Spec: protocolIDs being filled by downloadInfo
    passes,   \* Spec: per state, "pending" | "ok" | "failed"
    err,      \* Spec: the error or panic value the run ended with
    file      \* Spec: packetid.go: "absent" | "created" | the rendered constants

vars == <<m, hist, given, ret, gameState, pc, out, passes, err, file>>

---------------------------------------------------------------------------
(* Bounds *)

\* packet IDs of the disambiguator's input tables are 0..MaxID
MaxID == 1
\* number of successive EnsureUniqueNames calls explored on one mapping
MaxCalls == 2
\* number of keys of a mappings object
MaxKeys == 2

---------------------------------------------------------------------------
(* Text *)

\* strcase.ToCamel on one word: first letter upper-cased, the rest kept
Capital(w) ==
    CASE w = "foo" -> "Foo"
      [] w = "Foo" -> "Foo"
      [] w = "bar" -> "Bar"
      [] w = "clientbound" -> "Clientbound"
      [] w = "serverbound" -> "Serverbound"
      [] OTHER -> w

\* strcase.ToCamel: delimiters dropped, every word capitalised
ToCamel(raw) == [i \in 1..Len(raw) |-> Capital(raw[i])]

RawNames ==
    { <<"foo">>, <<"bar">>, <<"foo", "clientbound">>, <<"foo", "serverbound">> }

\* the canonical names unpackMapping can put into a table
Names == { ToCamel(r) : r \in RawNames }

---------------------------------------------------------------------------
(* Evaluation *)

\* F applied to the value of e, e being evaluated once (a Go statement
\* x := e, followed by the statements F that read x)
Bind(e, F(_)) == CHOOSE y \in { F(x) : x \in {e} } : TRUE

---------------------------------------------------------------------------
(* Go maps *)

\* map[k] = v
MapSet(f, k, v) == [x \in DOMAIN f \cup {k} |-> IF x = k THEN v ELSE f[x]]

EmptyMap == [x \in {} |-> 0]

\* the orders in which a range loop may visit the keys S
Orders(S) ==
    { s \in [1..Cardinality(S) -> S] : \A i, j \in DOMAIN s : i # j => s[i] # s[j] }

\* the values a map holds
Range(f) == { f[x] : x \in DOMAIN f }

---------------------------------------------------------------------------
(* duplexMappings.EnsureUniqueNames *)

\* lines 83-86: the reverse index, the keys of Clientbound visited in `order`
RECURSIVE clientBoundsOf(_, _)
clientBoundsOf(Clientbound, order) ==
    IF order = <<>> THEN EmptyMap
    ELSE LET n == Len(order)
             sk == order[n]
         IN  Bind(clientBoundsOf(Clientbound, SubSeq(order, 1, n - 1)),
                  LAMBDA clientBounds : MapSet(clientBounds, Clientbound[sk], sk))

\* a slip: the `ok` of the lookup is ignored, so a name that is not in the
\* index reads the zero value 0 as its clientbound ID
renameIgnoringOk(dm, clientBounds, sk) ==
    LET sv == dm.Serverbound[sk]
        ck == IF sv \in DOMAIN clientBounds THEN clientBounds[sv] ELSE 0
    IN  [Clientbound |-> MapSet(dm.Clientbound, ck, Append(sv, "Clientbound")),
         Serverbound |-> MapSet(dm.Serverbound, sk, Append(sv, "Serverbound"))]

\* lines 88-91: the body of the loop over Serverbound, at key sk
renameColliding(dm, clientBounds, sk) ==
    LET sv == dm.Serverbound[sk]
    IN  IF sv \in DOMAIN clientBounds
        THEN [Clientbound |-> MapSet(dm.Clientbound, clientBounds[sv], Append(sv, "Clientbound")),
              Serverbound |-> MapSet(dm.Serverbound, sk, Append(sv, "Serverbound"))]
        ELSE dm

\* lines 87-92: the loop over Serverbound, its keys visited in `order`
RECURSIVE renameLoop(_, _, _)
renameLoop(dm, clientBounds, order) ==
    IF order = <<>> THEN dm
    ELSE Bind(renameColliding(dm, clientBounds, Head(order)),
              LAMBDA next : renameLoop(next, clientBounds, Tail(order)))

\* lines 80-93
EnsureUniqueNames(dm, cOrder, sOrder) ==
    Bind(clientBoundsOf(dm.Clientbound, cOrder),
         LAMBDA clientBounds : renameLoop(dm, clientBounds, sOrder))

\* every result the call can have, over the orders of visit
EnsureUniqueNamesResults(dm) ==
    { EnsureUniqueNames(dm, co, so) :
        co \in Orders(DOMAIN dm.Clientbound), so \in Orders(DOMAIN dm.Serverbound) }

---------------------------------------------------------------------------
(* Decoded JSON: interface{} values carry their dynamic type *)

JMap(f) == [t |-> "map[string]interface {}", v |-> f]
JList(s) == [t |-> "[]interface {}", v |-> s]
JString(s) == [t |-> "string", v |-> s]
JNumber(n) == [t |-> "float64", v |-> n]
JNil == [t |-> "<nil>", v |-> 0]

\* what a function returns: a value, an error, or a panic unwinding the stack
Ok(v) == [kind |-> "ok", val |-> v, msg |-> <<>>]
Error(zero, msg) == [kind |-> "error", val |-> zero, msg |-> msg]
Panic(zero, msg) == [kind |-> "panic", val |-> zero, msg |-> msg]

\* lines 60-73
RECURSIVE unnest(_, _)
unnest(input, keys) ==
    IF keys = <<>> THEN Ok(input)
    ELSE LET k == Head(keys)
         IN  IF k \notin DOMAIN input
             THEN Error(EmptyMap, <<"key", k, "not found">>)
             ELSE LET sub == input[k]
                  IN  IF sub.t # "map[string]interface {}"
                      THEN Error(EmptyMap, <<"key", k, "was", sub.t, "expected a string map">>)
                      ELSE unnest(sub.v, Tail(keys))

\* m[k] on a Go map: the zero value (a nil interface) when k is absent
MapIndex(f, k) == IF k \in DOMAIN f THEN f[k] ELSE JNil

\* x.([]interface{})[i]
ListAt(x, i) ==
    IF x.t # "[]interface {}"
    THEN Panic(JNil, <<"interface conversion", x.t, "not", "[]interface {}">>)
    ELSE IF i >= Len(x.v)
    THEN Panic(JNil, <<"index out of range">>)
    ELSE Ok(x.v[i + 1])

\* x.(map[string]interface{})[k]
MapAt(x, k) ==
    IF x.t # "map[string]interface {}"
    THEN Panic(JNil, <<"interface conversion", x.t, "not", "map[string]interface {}">>)
    ELSE Ok(MapIndex(x.v, k))

\* x.(map[string]interface{})
AsMap(x) ==
    IF x.t # "map[string]interface {}"
    THEN Panic(EmptyMap, <<"interface conversion", x.t, "not", "map[string]interface {}">>)
    ELSE Ok(x.v)

\* one type assertion and index of lines 107-108
Step(x, st) == IF st.op = "list" THEN ListAt(x, st.i) ELSE MapAt(x, st.k)

\* the assertions and indexes of lines 107-108 after info["packet"], in the
\* order they are evaluated:
\*   .([]interface{})[1].([]interface{})[0].(map[string]interface{})["type"]
\*   .([]interface{})[1].(map[string]interface{})["mappings"]
PacketPath ==
    << [op |-> "list", i |-> 1], [op |-> "list", i |-> 0], [op |-> "map", k |-> "type"],
       [op |-> "list", i |-> 1], [op |-> "map", k |-> "mappings"] >>

\* the chain of lines 107-108 from x on; the first failed step panics
RECURSIVE descend(_, _)
descend(x, path) ==
    IF path = <<>> THEN AsMap(x)
    ELSE Bind(Step(x, Head(path)),
              LAMBDA r : IF r.kind = "ok" THEN descend(r.val, Tail(path))
                         ELSE Panic(EmptyMap, r.msg))

\* lines 107-108 and 116-117: from the "types" section to the mappings object
packetMappings(info) == descend(MapIndex(info, "packet"), PacketPath)

---------------------------------------------------------------------------
(* strconv.ParseInt(num, 0, 32), on keys over the characters below *)

DigitValue(c) ==
    CASE c = "0" -> 0 [] c = "1" -> 1 [] c = "2" -> 2 [] c = "3" -> 3
      [] c = "4" -> 4 [] c = "5" -> 5 [] c = "6" -> 6 [] c = "7" -> 7
      [] c = "8" -> 8 [] c = "9" -> 9
      [] c \in {"a", "A"} -> 10 [] c \in {"b", "B"} -> 11
      [] c \in {"c", "C"} -> 12 [] c \in {"d", "D"} -> 13
      [] c \in {"e", "E"} -> 14 [] c \in {"f", "F"} -> 15
      [] OTHER -> 99

\* the digits of s read in `base`; -1 when a character is no digit of it
RECURSIVE DigitsValue(_, _)
DigitsValue(s, base) ==
    IF s = <<>> THEN 0
    ELSE LET n == Len(s)
             d == DigitValue(s[n])
         IN  Bind(DigitsValue(SubSeq(s, 1, n - 1), base),
                  LAMBDA hi : IF d >= base \/ hi < 0 THEN -1 ELSE hi * base + d)

\* base 0: the base is taken from the prefix
ParseUint0(s) ==
    IF s = <<>> THEN -1
    ELSE IF s[1] # "0" THEN DigitsValue(s, 10)
    ELSE IF Len(s) >= 3 /\ s[2] \in {"b", "B"} THEN DigitsValue(SubSeq(s, 3, Len(s)), 2)
    ELSE IF Len(s) >= 3 /\ s[2] \in {"o", "O"} THEN DigitsValue(SubSeq(s, 3, Len(s)), 8)
    ELSE IF Len(s) >= 3 /\ s[2] \in {"x", "X"} THEN DigitsValue(SubSeq(s, 3, Len(s)), 16)
    ELSE DigitsValue(Tail(s), 8)

\* bitSize 32: the largest value, 1<<31 - 1 (the digits of the model's keys
\* stay far below it)
Int32Max == 2147483647

ParseInt32(s) ==
    IF s = <<>> THEN Error(0, <<"strconv.ParseInt", "invalid syntax">>)
    ELSE LET neg == s[1] = "-"
             body == IF s[1] \in {"+", "-"} THEN Tail(s) ELSE s
             un == ParseUint0(body)
         IN  IF un < 0 THEN Error(0, <<"strconv.ParseInt", "invalid syntax">>)
             ELSE IF ~neg /\ un > Int32Max
             THEN Error(0, <<"strconv.ParseInt", "value out of range">>)
             ELSE IF neg /\ un - 1 > Int32Max
             THEN Error(0, <<"strconv.ParseInt", "value out of range">>)
             ELSE Ok(IF neg THEN 0 - un ELSE un)

\* lines 125-131
mustAtoi(num) ==
    LET r == ParseInt32(num)
    IN  IF r.kind = "ok" THEN Ok(r.val) ELSE Panic(0, r.msg)

---------------------------------------------------------------------------
(* unpackMapping *)

ZeroDuplex == [Clientbound |-> EmptyMap, Serverbound |-> EmptyMap]

\* lines 110 and 119: the body of a loop over the mappings object, at key k
\* (mustAtoi(k) is called before the name is converted)
putMapping(table, mappings, k) ==
    LET id == mustAtoi(k)
        v == mappings[k]
    IN  IF id.kind # "ok" THEN Panic(table, id.msg)
        ELSE IF v.t # "string"
        THEN Panic(table, <<"interface conversion", v.t, "not", "string">>)
        ELSE Ok(MapSet(table, id.val, ToCamel(v.v)))

\* lines 109-111 and 118-120: the loop, the keys visited in `order`
RECURSIVE fillTable(_, _, _)
fillTable(table, mappings, order) ==
    IF order = <<>> THEN Ok(table)
    ELSE Bind(putMapping(table, mappings, Head(order)),
              LAMBDA r : IF r.kind = "ok" THEN fillTable(r.val, mappings, Tail(order))
                         ELSE r)

\* lines 103-111 (direction "toClient") and 112-120 ("toServer"): the table
\* of one direction; `order` is the order in which the range loop visits the
\* keys of the mappings object
unpackDirection(data, state, direction, order) ==
    Bind(unnest(data, <<state, direction, "types">>),
         LAMBDA info :
            IF info.kind # "ok" THEN Error(EmptyMap, info.msg)
            ELSE Bind(packetMappings(info.val),
                      LAMBDA mp : IF mp.kind # "ok" THEN Panic(EmptyMap, mp.msg)
                                  ELSE fillTable(EmptyMap, mp.val, order)))

\* f1 after the writes of f2's entries
Overwrite(f1, f2) ==
    [x \in DOMAIN f1 \cup DOMAIN f2 |-> IF x \in DOMAIN f2 THEN f2[x] ELSE f1[x]]

\* a slip of copy and paste: line 119 writes out.Clientbound again
unpackMappingIntoClientbound(data, state, cOrder, sOrder) ==
    Bind(unpackDirection(data, state, "toClient", cOrder),
         LAMBDA c :
            IF c.kind # "ok" THEN [c EXCEPT !.val = ZeroDuplex]
            ELSE Bind(unpackDirection(data, state, "toServer", sOrder),
                      LAMBDA s : IF s.kind # "ok" THEN [s EXCEPT !.val = ZeroDuplex]
                                 ELSE Ok([Clientbound |-> Overwrite(c.val, s.val),
                                          Serverbound |-> EmptyMap])))

\* lines 97-123
unpackMapping(data, state, cOrder, sOrder) ==
    Bind(unpackDirection(data, state, "toClient", cOrder),
         LAMBDA c :
            IF c.kind # "ok" THEN [c EXCEPT !.val = ZeroDuplex]
            ELSE Bind(unpackDirection(data, state, "toServer", sOrder),
                      LAMBDA s : IF s.kind # "ok" THEN [s EXCEPT !.val = ZeroDuplex]
                                 ELSE Ok([Clientbound |-> c.val, Serverbound |-> s.val])))

\* the keys the range loop of one direction visits (none when the
\* traversal does not reach the mappings object)
mappingKeys(data, state, direction) ==
    Bind(unnest(data, <<state, direction, "types">>),
         LAMBDA info :
            IF info.kind # "ok" THEN {}
            ELSE Bind(packetMappings(info.val),
                      LAMBDA mp : IF mp.kind # "ok" THEN {} ELSE DOMAIN mp.val))

---------------------------------------------------------------------------
(* Protocol documents *)

States == {"login", "play", "status"}
Directions == {"toClient", "toServer"}

\* defects of a document: a key of the traversal path absent, or a value on
\* it of another type than the traversal expects
StateDefects == {"state missing", "state not map"}
UnnestDefects == {"direction missing", "direction not map", "types missing", "types not map"}
DeepDefects ==
    {"packet missing", "packet not list", "packet short", "fields not list",
     "fields empty", "field not map", "type missing", "type not list",
     "type short", "mapper not map", "mappings missing", "mappings not map",
     "name not string"}

\* the "types" section's owner, state.direction, of protocol.json; `mappings`
\* maps key texts to raw names
DirectionDoc(defect, mappings) ==
    LET names == [k \in DOMAIN mappings |->
                    IF defect = "name not string" THEN JNumber(0) ELSE JString(mappings[k])]
        mapper == IF defect = "mappings missing"
                  THEN JMap("type" :> JString("varint"))
                  ELSE JMap("type" :> JString("varint") @@
                            "mappings" :> (IF defect = "mappings not map"
                                           THEN JList(<<>>) ELSE JMap(names)))
        type == CASE defect = "type not list" -> JString("varint")
                  [] defect = "type short" -> JList(<<JString("mapper")>>)
                  [] defect = "mapper not map" -> JList(<<JString("mapper"), JString("varint")>>)
                  [] OTHER -> JList(<<JString("mapper"), mapper>>)
        field == IF defect = "type missing"
                 THEN JMap("name" :> JString("name"))
                 ELSE JMap("name" :> JString("name") @@ "type" :> type)
        fields == CASE defect = "fields not list" -> JMap(EmptyMap)
                    [] defect = "fields empty" -> JList(<<>>)
                    [] defect = "field not map" -> JList(<<JString("name")>>)
                    [] OTHER -> JList(<<field, JMap("name" :> JString("params"))>>)
        packet == CASE defect = "packet not list" -> JMap(EmptyMap)
                    [] defect = "packet short" -> JList(<<JString("container")>>)
                    [] OTHER -> JList(<<JString("container"), fields>>)
        types == IF defect = "packet missing" THEN EmptyMap ELSE "packet" :> packet
    IN  CASE defect = "types missing" -> EmptyMap
          [] defect = "types not map" -> "types" :> JList(<<>>)
          [] OTHER -> "types" :> JMap(types)

\* one state's subtree; g = [defect, direction, toClient, toServer], the
\* defect being that of g.direction
StateDoc(g) ==
    [d \in { d \in Directions : ~(g.defect = "direction missing" /\ g.direction = d) } |->
        IF g.defect = "direction not map" /\ g.direction = d
        THEN JNil
        ELSE JMap(DirectionDoc(IF g.direction = d THEN g.defect ELSE "none", g[d]))]

\* the decoded document; gs maps each state to its g
Document(gs) ==
    [s \in { s \in DOMAIN gs : gs[s].defect # "state missing" } |->
        IF gs[s].defect = "state not map" THEN JList(<<>>) ELSE JMap(StateDoc(gs[s]))]

---------------------------------------------------------------------------
(* Specification SpecEUN: EnsureUniqueNames on every bounded StateMapping *)

IDs == 0..MaxID

\* map[int32]string with IDs in 0..MaxID and names unpackMapping can produce
Tables == UNION { [D -> Names] : D \in SUBSET IDs }

NoReturn == [kind |-> "none", val |-> ZeroDuplex, msg |-> <<>>]

IdleEUN == m = ZeroDuplex /\ hist = <<>>
IdleDocument == given = EmptyMap
IdleUnpack == ret = NoReturn /\ gameState = "none"
NoError == [kind |-> "none", msg |-> <<>>]
NoFile == [state |-> "absent", content |-> <<>>]
IdleRun ==
    /\ pc = "idle" /\ out = EmptyMap /\ passes = EmptyMap
    /\ err = NoError /\ file = NoFile

InitEUN ==
    /\ m \in [Clientbound : Tables, Serverbound : Tables]
    /\ hist = <<m>>
    /\ IdleDocument /\ IdleUnpack /\ IdleRun

CallEnsureUniqueNames ==
    /\ Len(hist) >= 1
    /\ Len(hist) <= MaxCalls
    /\ \E co \in Orders(DOMAIN m.Clientbound), so \in Orders(DOMAIN m.Serverbound) :
           m' = EnsureUniqueNames(m, co, so)
    /\ hist' = Append(hist, m')
    /\ UNCHANGED <<given, ret, gameState, pc, out, passes, err, file>>

NextEUN == CallEnsureUniqueNames

SpecEUN == InitEUN /\ [][NextEUN]_vars

---------------------------------------------------------------------------
(* Specification SpecUnpack: unpackMapping on bounded documents *)

\* data: the document json.Decode produced
doc == Document(given)

\* key texts that are integer literals of ParseInt's base 0, and one that is not
IntegerKeyTexts == { <<"0">>, <<"0", "x", "0">>, <<"1">> }
BadKeyTexts == { <<"a", "b", "c">> }
KeyTexts == IntegerKeyTexts \cup BadKeyTexts

UnpackRawNames == { <<"foo">>, <<"bar">> }

MappingObjects ==
    UNION { [K -> UnpackRawNames] : K \in { K \in SUBSET KeyTexts : Cardinality(K) <= MaxKeys } }

OneMapping == (<<"0">> :> <<"foo">>)

WellFormed(c, s) == [defect |-> "none", direction |-> "none", toClient |-> c, toServer |-> s]

\* what the document holds for the state asked for: no defect and any two
\* mappings objects; or a defect in one direction, any mappings object in
\* the other; or a defect of the state's own entry
UnpackGivens ==
    { WellFormed(c, s) : c \in MappingObjects, s \in MappingObjects }
    \cup { [defect |-> f, direction |-> "toClient", toClient |-> OneMapping, toServer |-> o] :
             f \in UnnestDefects \cup DeepDefects, o \in MappingObjects }
    \cup { [defect |-> f, direction |-> "toServer", toClient |-> o, toServer |-> OneMapping] :
             f \in UnnestDefects \cup DeepDefects, o \in MappingObjects }
    \cup { [defect |-> f, direction |-> "none", toClient |-> OneMapping, toServer |-> OneMapping] :
             f \in StateDefects }

\* the other states of the document
Baseline == WellFormed(<<"1">> :> <<"bar">>, <<"1">> :> <<"foo">>)

InitUnpack ==
    /\ gameState \in States
    /\ \E g \in UnpackGivens :
           given = [s \in States |-> IF s = gameState THEN g ELSE Baseline]
    /\ ret = NoReturn
    /\ IdleEUN /\ IdleRun

CallUnpackMapping ==
    /\ gameState \in States
    /\ ret.kind = "none"
    /\ \E data \in {doc} :
         \E co \in Orders(mappingKeys(data, gameState, "toClient")),
            so \in Orders(mappingKeys(data, gameState, "toServer")) :
             ret' = unpackMapping(data, gameState, co, so)
    /\ UNCHANGED <<m, hist, given, gameState, pc, out, passes, err, file>>

NextUnpack == CallUnpackMapping

SpecUnpack == InitUnpack /\ [][NextUnpack]_vars

---------------------------------------------------------------------------
(* Specification Spec: one generation run, main and downloadInfo *)

\* what protocol.json may hold for a state in a run
RunGivens ==
    { WellFormed(<<"0">> :> <<"foo">>, <<"0">> :> <<"bar">>),
      WellFormed(<<"0">> :> <<"foo">>, <<"1">> :> <<"foo">>),
      WellFormed(<<"0">> :> <<"foo">> @@ <<"1">> :> <<"foo", "serverbound">>,
                 <<"0", "x", "0">> :> <<"foo">>),
      WellFormed(<<"0">> :> <<"foo">>, <<"a", "b", "c">> :> <<"bar">>),
      [defect |-> "direction missing", direction |-> "toClient",
       toClient |-> OneMapping, toServer |-> OneMapping],
      [defect |-> "packet missing", direction |-> "toServer",
       toClient |-> OneMapping, toServer |-> OneMapping] }

Init ==
    /\ given \in [States -> RunGivens]
    /\ pc = "download"
    /\ out = [s \in States |-> ZeroDuplex]
    /\ passes = [s \in States |-> "pending"]
    /\ err = NoError
    /\ file = NoFile
    /\ IdleEUN /\ IdleUnpack

\* lines 141-149: the document is fetched and decoded
DownloadOk ==
    /\ pc = "download"
    /\ pc' = "login"
    /\ UNCHANGED <<m, hist, given, ret, gameState, out, passes, err, file>>

\* lines 142-144, 147-149 and 173-175: http.Get or Decode fails, main panics
DownloadFails ==
    /\ pc = "download"
    /\ \E what \in {"http.Get", "json.Decode"} :
           err' = [kind |-> "error", msg |-> <<what>>]
    /\ pc' = "panicked"
    /\ UNCHANGED <<m, hist, given, ret, gameState, out, passes, file>>

\* lines 153, 157 and 161: the text put before a pass's error
errorPrefix(state) ==
    CASE state = "login" -> "login"
      [] state = "play" -> "play"
      [] state = "status" -> "play"

\* a slip: the error of a pass is dropped and the run goes on
pcAfterPassIgnoringError(r, succ) ==
    IF r.kind = "panic" THEN "panicked" ELSE succ

\* lines 152-154, 156-158, 160-162 and 173-175: after a pass that returned
\* r, downloadInfo goes on to succ, or returns the error and main panics
pcAfterPass(r, succ) ==
    IF r.kind = "ok" THEN succ ELSE "panicked"

\* lines 152-155, 156-159, 160-163: unpackMapping and EnsureUniqueNames for
\* one state
Pass(state, succ) ==
    /\ pc = state
    /\ \E data \in {doc} :
       \E co \in Orders(mappingKeys(data, state, "toClient")),
          so \in Orders(mappingKeys(data, state, "toServer")) :
       \E r \in {unpackMapping(data, state, co, so)} :
             /\ pc' = pcAfterPass(r, succ)
             /\ passes' = [passes EXCEPT ![state] = IF r.kind = "ok" THEN "ok" ELSE "failed"]
             /\ err' = CASE r.kind = "ok" -> err
                         [] r.kind = "error" /\ pc' = "panicked" ->
                                [kind |-> "error", msg |-> <<errorPrefix(state), ": ">> \o r.msg]
                         [] r.kind = "error" /\ pc' # "panicked" -> err
                         [] r.kind = "panic" -> [kind |-> "panic", msg |-> r.msg]
             /\ IF r.kind = "panic"
                THEN out' = out
                ELSE \E eco \in Orders(DOMAIN r.val.Clientbound),
                        eso \in Orders(DOMAIN r.val.Serverbound) :
                         out' = [out EXCEPT ![state] =
                                    IF pc' = "panicked" THEN r.val
                                    ELSE EnsureUniqueNames(r.val, eco, eso)]
    /\ UNCHANGED <<m, hist, given, ret, gameState, file>>

PassLogin == Pass("login", "play")
PassPlay == Pass("play", "status")
PassStatus == Pass("status", "create")

\* line 177
CreateOk ==
    /\ pc = "create"
    /\ file' = [state |-> "created", content |-> <<>>]
    /\ pc' = "render"
    /\ UNCHANGED <<m, hist, given, ret, gameState, out, passes, err>>

\* lines 177-180
CreateFails ==
    /\ pc = "create"
    /\ err' = [kind |-> "error", msg |-> <<"os.Create">>]
    /\ pc' = "panicked"
    /\ UNCHANGED <<m, hist, given, ret, gameState, out, passes, file>>

\* the keys of a table in increasing order, as text/template ranges over a map
RECURSIVE SortedKeys(_)
SortedKeys(S) ==
    IF S = {} THEN <<>>
    ELSE LET lo == CHOOSE x \in S : \A y \in S : x <= y
         IN  <<lo>> \o SortedKeys(S \ {lo})

\* one range block of the template: a declaration, name and ID, per entry
Declarations(table) ==
    LET ks == SortedKeys(DOMAIN table)
    IN  [i \in 1..Len(ks) |-> [name |-> table[ks[i]], id |-> ks[i]]]

\* lines 22-55: the declarations in the template's order
Rendered(ids) ==
    Declarations(ids["login"].Clientbound) \o Declarations(ids["login"].Serverbound)
    \o Declarations(ids["status"].Clientbound) \o Declarations(ids["status"].Serverbound)
    \o Declarations(ids["play"].Clientbound) \o Declarations(ids["play"].Serverbound)

\* lines 183-184
RenderOk ==
    /\ pc = "render"
    /\ file' = [state |-> "written", content |-> Rendered(out)]
    /\ pc' = "done"
    /\ UNCHANGED <<m, hist, given, ret, gameState, out, passes, err>>

\* lines 184-186: Execute fails on the created file
RenderFails ==
    /\ pc = "render"
    /\ err' = [kind |-> "error", msg |-> <<"tmpl.Execute">>]
    /\ pc' = "panicked"
    /\ UNCHANGED <<m, hist, given, ret, gameState, out, passes, file>>

Next ==
    \/ DownloadOk \/ DownloadFails
    \/ PassLogin \/ PassPlay \/ PassStatus
    \/ CreateOk \/ CreateFails
    \/ RenderOk \/ RenderFails

Spec == Init /\ [][Next]_vars

---------------------------------------------------------------------------
(* Claims on EnsureUniqueNames, checked under SpecEUN *)

NamesOf(t) == Range(t)

SharedNames(dm) == NamesOf(dm.Clientbound) \cap NamesOf(dm.Serverbound)

\* C1: after one call of EnsureUniqueNames no name appears in both the
\* Clientbound and the Serverbound table, whatever the input tables are.
C1_NoNameInBothTables ==
    Len(hist) >= 2 => SharedNames(hist[2]) = {}

\* what C3 says of one call taking `before` to `after`
FramePreserved(before, after) ==
    /\ DOMAIN after.Clientbound = DOMAIN before.Clientbound
    /\ DOMAIN after.Serverbound = DOMAIN before.Serverbound
    /\ \A c \in DOMAIN before.Clientbound :
           before.Clientbound[c] \notin NamesOf(before.Serverbound)
               => after.Clientbound[c] = before.Clientbound[c]
    /\ \A s \in DOMAIN before.Serverbound :
           before.Serverbound[s] \notin NamesOf(before.Clientbound)
               => after.Serverbound[s] = before.Serverbound[s]
    /\ (SharedNames(before) = {} => after = before)

\* C3: a call of EnsureUniqueNames keeps the set of IDs of each table, adds
\* and drops no entry, leaves every entry whose name does not occur in the
\* opposite table unchanged, and changes nothing at all when the two tables
\* share no name.
C3_FramePreserved ==
    \A i \in 1..(Len(hist) - 1) : FramePreserved(hist[i], hist[i + 1])

\* C3's case: a call that renamed a colliding pair while an entry of the same
\* mapping, whose name the opposite table does not hold, was there to be kept.
C3_Witness ==
    /\ Len(hist) >= 2
    /\ hist[2] # hist[1]
    /\ \E c \in DOMAIN hist[1].Clientbound :
           hist[1].Clientbound[c] \notin NamesOf(hist[1].Serverbound)
    /\ \E s \in DOMAIN hist[1].Serverbound :
           hist[1].Serverbound[s] \notin NamesOf(hist[1].Clientbound)

\* C4: for every clientbound ID c and serverbound ID s whose entries carry
\* the same name n before the call, afterwards Clientbound[c] is
\* n + "Clientbound" and Serverbound[s] is n + "Serverbound", also when n is
\* carried by several entries of a table.
C4_EveryCollidingPairSuffixed ==
    Len(hist) >= 2 =>
        \A c \in DOMAIN hist[1].Clientbound, s \in DOMAIN hist[1].Serverbound :
            hist[1].Clientbound[c] = hist[1].Serverbound[s] =>
                /\ c \in DOMAIN hist[2].Clientbound
                /\ s \in DOMAIN hist[2].Serverbound
                /\ hist[2].Clientbound[c] = Append(hist[1].Clientbound[c], "Clientbound")
                /\ hist[2].Serverbound[s] = Append(hist[1].Serverbound[s], "Serverbound")

\* C9: a second call of EnsureUniqueNames on the output of a first call
\* changes nothing, for every input.
C9_SecondCallNoOp ==
    Len(hist) >= 3 => hist[3] = hist[2]

\* C10: the output of EnsureUniqueNames is the same for every order in which
\* the two maps are visited.
C10_OrderIndependent ==
    Len(hist) >= 2 => \A r \in EnsureUniqueNamesResults(hist[1]) : r = hist[2]

---------------------------------------------------------------------------
(* Claims on unpackMapping, checked under SpecUnpack *)

unpackMappingResults(data, state) ==
    { unpackMapping(data, state, co, so) :
        co \in Orders(mappingKeys(data, state, "toClient")),
        so \in Orders(mappingKeys(data, state, "toServer")) }

TableOf(dm, direction) ==
    IF direction = "toClient" THEN dm.Clientbound ELSE dm.Serverbound

\* the spec's error kinds, of a returned error
ErrorClass(r) ==
    IF r.kind # "error" THEN "none"
    ELSE IF r.msg[1] = "strconv.ParseInt" THEN "ParseError"
    ELSE IF r.msg[3] = "not found" THEN "NotFound"
    ELSE "TypeMismatch"

\* the error kinds the document's defects call for
ExpectedClasses(g) ==
    (IF g.defect \in {"state missing", "direction missing", "types missing",
                      "packet missing", "type missing", "mappings missing"}
     THEN {"NotFound"} ELSE {})
    \cup (IF g.defect \notin {"none", "state missing", "direction missing", "types missing",
                             "packet missing", "type missing", "mappings missing"}
          THEN {"TypeMismatch"} ELSE {})
    \cup (IF \E d \in Directions : DOMAIN g[d] \cap BadKeyTexts # {}
          THEN {"ParseError"} ELSE {})

\* C5: on every malformed document unpackMapping returns an error value and
\* no StateMapping: NotFound for an absent key of the traversal path,
\* TypeMismatch for a value of the wrong container type, ParseError for a
\* mapping key that is no integer literal; it never panics instead.
C5_MalformedReturnsError ==
    (ret.kind # "none" /\ ExpectedClasses(given[gameState]) # {}) =>
        /\ ret.kind = "error"
        /\ ret.val = ZeroDuplex
        /\ ErrorClass(ret) \in ExpectedClasses(given[gameState])

\* C8: the table unpackMapping builds has as many entries as the mappings
\* object has keys, also when two textual keys denote the same integer, and
\* is the same whatever order the keys are visited in.
C8_OneEntryPerKey ==
    ret.kind = "ok" =>
        /\ \A d \in Directions :
               Cardinality(DOMAIN TableOf(ret.val, d))
                   = Cardinality(DOMAIN given[gameState][d])
        /\ \A r \in unpackMappingResults(doc, gameState) : r = ret

KeyInt(k) == mustAtoi(k).val

DistinctIntegers(obj) ==
    \A k1, k2 \in DOMAIN obj : KeyInt(k1) = KeyInt(k2) => k1 = k2

\* C8 as amended: the table has exactly one entry per distinct integer the
\* keys denote, holding the canonical name of a key that denotes it; when
\* the keys denote pairwise distinct integers there are as many entries as
\* keys, entry KeyInt(k) holds ToCamel of k's name, and every order of visit
\* gives the same tables.
C8_OneEntryPerInteger ==
    ret.kind = "ok" =>
        /\ \A d \in Directions :
               LET obj == given[gameState][d]
                   T == TableOf(ret.val, d)
               IN  /\ DOMAIN T = { KeyInt(k) : k \in DOMAIN obj }
                   /\ \A id \in DOMAIN T :
                          \E k \in DOMAIN obj : KeyInt(k) = id /\ T[id] = ToCamel(obj[k])
                   /\ DistinctIntegers(obj) =>
                          /\ Cardinality(DOMAIN T) = Cardinality(DOMAIN obj)
                          /\ \A k \in DOMAIN obj : T[KeyInt(k)] = ToCamel(obj[k])
        /\ (\A d \in Directions : DistinctIntegers(given[gameState][d])) =>
               \A r \in unpackMappingResults(doc, gameState) : r = ret

\* C8's case: a table built from a mappings object two of whose keys denote
\* the same integer and carry different names, beside a direction whose
\* keys denote distinct integers.
C8_Witness ==
    /\ ret.kind = "ok"
    /\ \E k1, k2 \in DOMAIN given[gameState].toClient :
           /\ k1 # k2 /\ KeyInt(k1) = KeyInt(k2)
           /\ given[gameState].toClient[k1] # given[gameState].toClient[k2]
    /\ Cardinality(DOMAIN ret.val.Clientbound) = 1
    /\ Cardinality(DOMAIN given[gameState].toServer) = 2
    /\ Cardinality(DOMAIN ret.val.Serverbound) = 2

---------------------------------------------------------------------------
(* Claims on the generation run, checked under Spec *)

\* C2: after a successful run no constant name is emitted twice, neither in
\* two of the six tables nor inside one table.
C2_EmittedNamesUnique ==
    file.state = "written" =>
        \A i, j \in 1..Len(file.content) :
            i # j => file.content[i].name # file.content[j].name

\* C6: the output file is created and written only after all three passes
\* have succeeded; after a failed pass the run is aborted, no later pass has
\* run and nothing has been output.
C6_FailFastNoOutput ==
    /\ file.state # "absent" => \A s \in States : passes[s] = "ok"
    /\ passes["play"] # "pending" => passes["login"] = "ok"
    /\ passes["status"] # "pending" => passes["play"] = "ok"
    /\ (\E s \in States : passes[s] = "failed") =>
           /\ pc = "panicked"
           /\ file.state = "absent"

\* C6's case: the play pass failed after the login pass succeeded; the run
\* is aborted with the status pass not run and no file.
C6_Witness ==
    /\ passes["login"] = "ok"
    /\ passes["play"] = "failed"
    /\ passes["status"] = "pending"
    /\ pc = "panicked"
    /\ file.state = "absent"

\* C7: when extraction fails for state S, the error the run reports names S
\* as the state of the failure (stated here for the failures that
\* unpackMapping returns as an error, which downloadInfo wraps).
C7_ErrorNamesFailedState ==
    \A s \in States :
        (passes[s] = "failed" /\ err.kind = "error") => Head(err.msg) = s

====
